---- MODULE Spec2Model ----
(***************************************************************************)
(* Model of anomalib's AnomalibModule (core/model/anomalib_module.py) and  *)
(* SaveToCSVCallback (core/callbacks/save_to_csv.py).                      *)
(*                                                                         *)
(* Scores, anomaly-map pixels and threshold values are integers in units   *)
(* of 0.5 (so the F1 metric's default cutoff 0.5 is the integer 1).        *)
(* Tensors are sequences: pred_scores and label are indexed by sample, and *)
(* anomaly_maps[i] / mask[i] are the pixels of sample i in row-major order *)
(* (what reshape(B, -1) and flatten() make of the map).                    *)
(* A batch output (a Python dict) is a function whose DOMAIN is the set of *)
(* keys the dict holds.                                                    *)
(***************************************************************************)
EXTENDS Integers, Sequences, FiniteSets

\* ------------------------------------------------------------------ bounds
MaxScore == 1
NumPixels == 2
MaxSteps == 2
MaxRows == 2

\* ------------------------------------------------------- program constants
\* torchmetrics F1(num_classes=1, ...) is built without a threshold argument:
\* its cutoff starts at the default 0.5, i.e. 1 in units of 0.5.
F1DefaultThreshold == 1

Keys == {"pred_scores", "anomaly_maps", "label", "mask"}
Scores == 0..MaxScore
Classes == {0, 1}

\* ----------------------------------------------------------- batch outputs
Vectors(S, n) == [1..n -> S]

MkOutput(D, ps, am, lb, mk) ==
    [k \in D |-> CASE k = "pred_scores" -> ps
                   [] k = "anomaly_maps" -> am
                   [] k = "label" -> lb
                   [] k = "mask" -> mk]

\* Every dict validation_step may return for a batch of b samples whose maps
\* have p pixels and whose ground truth is in cls: any subset of the four keys,
\* any values.
RawOutputsOn(b, p, cls) ==
    UNION { { MkOutput(D, ps, am, lb, mk) :
                ps \in (IF "pred_scores" \in D THEN Vectors(Scores, b) ELSE {<<>>}),
                am \in (IF "anomaly_maps" \in D THEN Vectors(Vectors(Scores, p), b) ELSE {<<>>}),
                lb \in (IF "label" \in D THEN Vectors(cls, b) ELSE {<<>>}),
                mk \in (IF "mask" \in D THEN Vectors(Vectors(cls, p), b) ELSE {<<>>}) }
            : D \in SUBSET Keys }

RawOutputsOf(b, p) == RawOutputsOn(b, p, Classes)

Has(o, k) == k \in DOMAIN o

RECURSIVE MaxOf(_)
MaxOf(s) ==
    IF Len(s) = 1 THEN s[1]
    ELSE LET m == MaxOf(Tail(s)) IN IF s[1] >= m THEN s[1] ELSE m

SetKey(o, k, v) == [x \in DOMAIN o \cup {k} |-> IF x = k THEN v ELSE o[x]]

\* Mutant of MapMax: the maximum over the whole batch (no reshape to B rows).
MapMax_WholeBatch(am) ==
    LET m == MaxOf([n \in 1..Len(am) |-> MaxOf(am[n])]) IN [i \in 1..Len(am) |-> m]

\* outputs["anomaly_maps"].reshape(B, -1).max(dim=1).values
MapMax(am) == [i \in 1..Len(am) |-> MaxOf(am[i])]

\* Mutant of _post_process: the scores are derived whenever there are maps.
_post_process_always(o) ==
    IF Has(o, "anomaly_maps")
    THEN [x \in DOMAIN o \cup {"pred_scores"} |->
             IF x = "pred_scores"
             THEN [i \in 1..Len(o["anomaly_maps"]) |-> MaxOf(o["anomaly_maps"][i])]
             ELSE o[x]]
    ELSE o

_post_process(o) ==
    IF ~Has(o, "pred_scores") /\ Has(o, "anomaly_maps")
    THEN SetKey(o, "pred_scores", MapMax(o["anomaly_maps"]))
    ELSE o

validation_step_end(o) == _post_process(o)
test_step_end(o) == _post_process(o)

\* ------------------------------------------------- AdaptiveThreshold metric
\* anomalib.core.metrics.AdaptiveThreshold: update() hands the pairs to a
\* precision-recall curve, compute() sets value to the threshold of maximal F1.
RECURSIVE Flatten(_)
Flatten(t) == IF Len(t) = 0 THEN <<>> ELSE Head(t) \o Flatten(Tail(t))

\* The pairs an aggregator has been fed, as a multiset: how many times each
\* (prediction, target) pair was given to update().  compute() reads nothing
\* else of them.
NoPairs == [p \in Scores \X Classes |-> 0]

AddPairs(pairs, preds, target) ==
    [p \in DOMAIN pairs |->
        pairs[p] + Cardinality({i \in 1..Len(preds) : <<preds[i], target[i]>> = p})]

NewThreshold(default) == [value |-> default, pairs |-> NoPairs]

ThresholdUpdate(th, preds, target) ==
    [th EXCEPT !.pairs = AddPairs(@, preds, target)]

\* Pairs of class cls whose prediction is at least t.
RECURSIVE CountAt(_, _, _)
CountAt(pairs, t, cls) ==
    IF t > MaxScore THEN 0 ELSE pairs[<<t, cls>>] + CountAt(pairs, t + 1, cls)

Positives(pairs) == CountAt(pairs, 0, 1)

Size(pairs) == CountAt(pairs, 0, 0) + CountAt(pairs, 0, 1)

\* F1 at threshold t as the fraction <<2 tp, 2 tp + fp + fn>>.
F1At(pairs, t) ==
    LET tp == CountAt(pairs, t, 1)
        fp == CountAt(pairs, t, 0)
    IN <<2 * tp, tp + fp + Positives(pairs)>>

\* The curve keeps the distinct scores down to the highest one that reaches
\* full recall; argmax takes the first (lowest) threshold of maximal F1.  With
\* no positive target the recall is 0/0 and the only kept threshold, the
\* highest score, is taken.
CurveThresholds(pairs) ==
    LET vals == {s \in Scores : pairs[<<s, 0>>] + pairs[<<s, 1>>] > 0}
        full == {t \in vals : CountAt(pairs, t, 1) = Positives(pairs)}
        stop == CHOOSE t \in full : \A u \in full : u <= t
    IN {t \in vals : t >= stop}

BestThreshold(pairs) ==
    LET ts == CurveThresholds(pairs)
        Better(t, u) ==
            LET a == F1At(pairs, t)
                b == F1At(pairs, u)
            IN \/ a[1] * b[2] > b[1] * a[2]
               \/ a[1] * b[2] = b[1] * a[2] /\ t <= u
    IN CHOOSE t \in ts : \A u \in ts : Better(t, u)

ThresholdCompute(th) == [th EXCEPT !.value = BestThreshold(th.pairs)]

\* ------------------------------------------- torchmetrics MetricCollection
NewMetrics ==
    [F1 |-> [threshold |-> F1DefaultThreshold, tp |-> 0, fp |-> 0, tn |-> 0, fn |-> 0],
     AUROC |-> [pairs |-> NoPairs]]

Hits(preds, target, cutoff, p, t) ==
    Cardinality({i \in 1..Len(preds) :
                    (IF preds[i] >= cutoff THEN 1 ELSE 0) = p /\ target[i] = t})

\* F1 binarises the predictions with its cutoff when update() is called.
F1Update(f, preds, target) ==
    [f EXCEPT !.tp = @ + Hits(preds, target, f.threshold, 1, 1),
              !.fp = @ + Hits(preds, target, f.threshold, 1, 0),
              !.tn = @ + Hits(preds, target, f.threshold, 0, 0),
              !.fn = @ + Hits(preds, target, f.threshold, 0, 1)]

MetricsUpdate(mc, preds, target) ==
    [F1 |-> F1Update(mc.F1, preds, target),
     AUROC |-> [pairs |-> AddPairs(mc.AUROC.pairs, preds, target)]]

\* ------------------------------------------------------------------- state
VARIABLES
    hparams,            \* save_hyperparameters(): the constructor's arguments
    image_threshold,    \* self.image_threshold
    pixel_threshold,    \* self.pixel_threshold
    image_metrics,      \* self.image_metrics
    pixel_metrics,      \* self.pixel_metrics
    loop,               \* the trainer loop that is collecting step outputs
    outputs,            \* step-end outputs the running loop has collected
    steps,              \* steps run so far
    step_output,        \* dict validation_step returned for the last batch
    returned,           \* value returned by the last hook
    lastOp,             \* the last hook called
    error,              \* exception raised by the last hook
    logged,             \* collections given to log_dict, not yet reset
    log_dir,            \* trainer.log_dir
    pl_module,          \* attributes of the module the callback is given
    files               \* the file system under the log directories

vars == <<hparams, image_threshold, pixel_threshold, image_metrics, pixel_metrics,
          loop, outputs, steps, step_output, returned, lastOp, error, logged,
          log_dir, pl_module, files>>

exportVars == <<log_dir, pl_module, files>>

None == [none |-> TRUE]
NoError == "none"

\* The attributes the callback reads of pl_module.  Nothing in
\* anomalib_module.py assigns self.results: the module has the attribute only
\* if something else gave it one.
BareModule == <<>>
WithResults(res) == [a \in {"results"} |-> res]

\* ------------------------------------------------------- epoch-end helpers
HasPixelKeys(o) == Has(o, "mask") /\ Has(o, "anomaly_maps")

\* metric.update(preds, target): the method of the object's class.
update(metric, preds, target) ==
    IF "value" \in DOMAIN metric
    THEN ThresholdUpdate(metric, preds, target)
    ELSE MetricsUpdate(metric, preds, target)

\* _collect_outputs over the outputs in order.  A missing pred_scores or label
\* raises KeyError at that output; the updates made before it stay.
RECURSIVE _collect_outputs(_, _, _)
_collect_outputs(image_metric, pixel_metric, outs) ==
    IF Len(outs) = 0
    THEN [image |-> image_metric, pixel |-> pixel_metric, error |-> NoError]
    ELSE LET output == Head(outs) IN
         IF ~Has(output, "pred_scores") \/ ~Has(output, "label")
         THEN [image |-> image_metric, pixel |-> pixel_metric, error |-> "KeyError"]
         ELSE _collect_outputs(
                update(image_metric, output["pred_scores"], output["label"]),
                IF HasPixelKeys(output)
                THEN update(pixel_metric, Flatten(output["anomaly_maps"]),
                            Flatten(output["mask"]))
                ELSE pixel_metric,
                Tail(outs))

\* Mutants of PixelKeysInEpoch: the pixel threshold always copies the image
\* threshold; every output of the epoch is asked for the keys.
PixelKeysInEpoch_Never(outs) == FALSE
PixelKeysInEpoch_Every(outs) == \A i \in 1..Len(outs) : HasPixelKeys(outs[i])

\* The test of line 151: the keys of the first output decide for the epoch.
PixelKeysInEpoch(outs) == HasPixelKeys(outs[1])

\* State of the four metric objects, and the exception if one was raised.
_compute_adaptive_threshold(st, outs) ==
    LET c == _collect_outputs(st.image_threshold, st.pixel_threshold, outs)
        img == ThresholdCompute(c.image)
        pix == IF PixelKeysInEpoch(outs)
               THEN ThresholdCompute(c.pixel)
               ELSE [c.pixel EXCEPT !.value = img.value]
    IN IF c.error # NoError
       THEN [st EXCEPT !.image_threshold = c.image, !.pixel_threshold = c.pixel,
                       !.error = c.error]
       ELSE [st EXCEPT !.image_threshold = img, !.pixel_threshold = pix,
                       !.image_metrics.F1.threshold = img.value,
                       !.pixel_metrics.F1.threshold = pix.value]

Tasks == {"classification", "segmentation"}

\* The collections _log_metrics hands to log_dict, by their prefix.
_log_metrics(task) ==
    {"image_"} \cup (IF task = "segmentation" THEN {"pixel_"} ELSE {})

\* The two closing lines of both epoch-end hooks: _collect_outputs into the
\* metric collections, then _log_metrics, which a KeyError keeps from running.
CollectAndLog(st, outs, task) ==
    LET c == _collect_outputs(st.image_metrics, st.pixel_metrics, outs)
    IN [st EXCEPT !.image_metrics = c.image, !.pixel_metrics = c.pixel,
                  !.error = c.error,
                  !.logged = IF c.error = NoError THEN _log_metrics(task) ELSE @]

Current ==
    [image_threshold |-> image_threshold, pixel_threshold |-> pixel_threshold,
     image_metrics |-> image_metrics, pixel_metrics |-> pixel_metrics,
     error |-> NoError, logged |-> logged]

\* Mutant of validation_epoch_end: the metrics are fed before the thresholds
\* are computed.
validation_epoch_end_late(st, outs, adaptive, task) ==
    LET m == CollectAndLog(st, outs, task)
    IN IF m.error # NoError \/ ~adaptive THEN m ELSE _compute_adaptive_threshold(m, outs)

validation_epoch_end(st, outs, adaptive, task) ==
    LET t == IF adaptive THEN _compute_adaptive_threshold(st, outs) ELSE st
    IN IF t.error # NoError THEN t ELSE CollectAndLog(t, outs, task)

\* Mutant of test_epoch_end: the thresholds are recomputed as in validation.
test_epoch_end_recompute(st, outs, task) ==
    CollectAndLog(_compute_adaptive_threshold(st, outs), outs, task)

test_epoch_end(st, outs, task) == CollectAndLog(st, outs, task)

\* Mutant of predict_step: a score equal to the threshold is labelled normal.
predict_step_strict(o, threshold) ==
    LET p == _post_process(o)
    IN IF ~Has(p, "pred_scores") THEN [out |-> None, error |-> "KeyError"]
       ELSE [out |-> SetKey(p, "pred_labels",
                            [i \in 1..Len(p["pred_scores"]) |->
                                p["pred_scores"][i] > threshold.value]),
             error |-> NoError]

\* predict_step on the dict validation_step returned for the batch; line 102
\* raises KeyError when post-processing left no pred_scores.
predict_step(o, threshold) ==
    LET p == _post_process(o)
    IN IF ~Has(p, "pred_scores") THEN [out |-> None, error |-> "KeyError"]
       ELSE [out |-> SetKey(p, "pred_labels",
                            [i \in 1..Len(p["pred_scores"]) |->
                                p["pred_scores"][i] >= threshold.value]),
             error |-> NoError]

\* test_step returns what validation_step returns.
test_step(o) == o

\* --------------------------------------------------------- lifecycle hooks
\* Dicts validation_step returns for one batch of the validate and test loops:
\* one sample whose map has one pixel.  A model emits image scores or anomaly
\* maps (post_process derives the scores of the latter); the batch brings the
\* label and, for segmentation data, the mask.  The malformed dicts are the
\* ones without any score and the one with nothing but scores.
WellFormed(o) ==
    /\ Has(o, "label")
    /\ Has(o, "pred_scores") # Has(o, "anomaly_maps")
Malformed(o) == DOMAIN o \subseteq {"label"} \/ DOMAIN o = {"pred_scores"}
StepBatches == {o \in RawOutputsOf(1, 1) : WellFormed(o) \/ Malformed(o)}

\* Dicts validation_step returns in the predict loop, where the batch brings
\* no ground truth.
PredictBatches == {o \in RawOutputsOf(1, 1) : ~Has(o, "label") /\ ~Has(o, "mask")}

\* Configured default thresholds: the two ends of the score range.
DefaultThresholds == {0, MaxScore}

\* The constructor's arguments.  The two defaults differ, so that a pixel
\* threshold copied from the image threshold is told from one left alone.
Configurations ==
    {hp \in [task : Tasks, adaptive_threshold : BOOLEAN,
             default_image_threshold : DefaultThresholds,
             default_pixel_threshold : DefaultThresholds] :
        hp.default_pixel_threshold # hp.default_image_threshold}

InitModule(hp) ==
    /\ hparams = hp
    /\ image_threshold = NewThreshold(hp.default_image_threshold)
    /\ pixel_threshold = NewThreshold(hp.default_pixel_threshold)
    /\ image_metrics = NewMetrics
    /\ pixel_metrics = NewMetrics
    /\ loop = "idle"
    /\ outputs = <<>>
    /\ steps = 0
    /\ returned = None
    /\ lastOp = "__init__"
    /\ error = NoError
    /\ logged = {}

Init ==
    /\ \E hp \in Configurations : InitModule(hp)
    /\ step_output = None
    /\ log_dir = "logs"
    /\ pl_module = BareModule
    /\ files = <<>>

\* One step of a trainer loop: the hook's return value joins the loop's outputs.
StepEnd(name, stepped, out) ==
    /\ error = NoError
    /\ steps < MaxSteps
    /\ loop = name \/ (loop = "idle" /\ logged = {})
    /\ loop' = name
    /\ steps' = steps + 1
    /\ step_output' = stepped
    /\ returned' = out
    /\ outputs' = Append(outputs, out)
    /\ error' = NoError
    /\ UNCHANGED <<hparams, image_threshold, pixel_threshold, image_metrics,
                   pixel_metrics, logged>>
    /\ UNCHANGED exportVars

ValidationStepEnd ==
    /\ \E o \in StepBatches : StepEnd("validate", o, validation_step_end(o))
    /\ lastOp' = "validation_step_end"

TestStepEnd ==
    /\ \E batch \in StepBatches :
          StepEnd("test", test_step(batch), test_step_end(test_step(batch)))
    /\ lastOp' = "test_step_end"

EpochEnd(name, st) ==
    /\ error = NoError
    /\ loop = name
    /\ loop' = "idle"
    /\ image_threshold' = st.image_threshold
    /\ pixel_threshold' = st.pixel_threshold
    /\ image_metrics' = st.image_metrics
    /\ pixel_metrics' = st.pixel_metrics
    /\ error' = st.error
    /\ logged' = st.logged
    /\ returned' = None
    /\ step_output' = None
    /\ outputs' = <<>>
    /\ UNCHANGED <<hparams, steps>>
    /\ UNCHANGED exportVars

ValidationEpochEnd ==
    /\ EpochEnd("validate",
                validation_epoch_end(Current, outputs, hparams.adaptive_threshold,
                                     hparams.task))
    /\ lastOp' = "validation_epoch_end"

TestEpochEnd ==
    /\ EpochEnd("test", test_epoch_end(Current, outputs, hparams.task))
    /\ lastOp' = "test_epoch_end"

\* What the trainer does, once an epoch-end hook has returned, with the
\* metrics the hook gave to log_dict: it computes them for the logger and
\* resets them.  reset() empties the accumulated states and leaves attributes
\* such as the F1 cutoff alone.  The thresholds are never logged, nor are the
\* pixel metrics of a classification task.
MetricsReset(mc) ==
    [F1 |-> [mc.F1 EXCEPT !.tp = 0, !.fp = 0, !.tn = 0, !.fn = 0],
     AUROC |-> [pairs |-> NoPairs]]

TrainerResetLogged ==
    /\ error = NoError
    /\ logged # {}
    /\ image_metrics' = IF "image_" \in logged THEN MetricsReset(image_metrics)
                        ELSE image_metrics
    /\ pixel_metrics' = IF "pixel_" \in logged THEN MetricsReset(pixel_metrics)
                        ELSE pixel_metrics
    /\ logged' = {}
    /\ lastOp' = "trainer_reset"
    /\ UNCHANGED <<hparams, image_threshold, pixel_threshold, loop, outputs, steps,
                   step_output, returned, error>>
    /\ UNCHANGED exportVars

PredictStep ==
    /\ error = NoError
    /\ loop = "idle"
    /\ logged = {}
    /\ steps < MaxSteps
    /\ \E o \in PredictBatches :
          LET r == predict_step(o, image_threshold)
          IN returned' = r.out /\ step_output' = o /\ error' = r.error
    /\ steps' = steps + 1
    /\ lastOp' = "predict_step"
    /\ UNCHANGED <<hparams, image_threshold, pixel_threshold, image_metrics,
                   pixel_metrics, loop, outputs, logged>>
    /\ UNCHANGED exportVars

Next ==
    \/ ValidationStepEnd
    \/ TestStepEnd
    \/ ValidationEpochEnd
    \/ TestEpochEnd
    \/ TrainerResetLogged
    \/ PredictStep

Spec == Init /\ [][Next]_vars

\* ------------------------------------------------ the step hooks, any batch
\* The step hooks applied, one after the other, to any dict validation_step
\* may return: any subset of the keys, batches of one or two samples.  The
\* ground truth, which the hooks only carry along, is that of normal samples.
BatchSizes == {1, 2}

AnyBatches(b) == RawOutputsOn(b, NumPixels, {0})

InitSteps ==
    /\ \E d \in DefaultThresholds :
          InitModule([task |-> "segmentation", adaptive_threshold |-> FALSE,
                      default_image_threshold |-> d, default_pixel_threshold |-> d])
    /\ \E b \in BatchSizes : step_output \in AnyBatches(b)
    /\ log_dir = "logs"
    /\ pl_module = BareModule
    /\ files = <<>>

\* The dict the next hook is given: it is changed in place, so a second hook
\* sees what the first one left.
HookInput == IF steps = 0 THEN step_output ELSE returned

Hook(out, err) ==
    /\ error = NoError
    /\ steps < 2
    /\ steps' = steps + 1
    /\ returned' = out
    /\ error' = err
    /\ UNCHANGED <<hparams, image_threshold, pixel_threshold, image_metrics,
                   pixel_metrics, loop, outputs, step_output, logged>>
    /\ UNCHANGED exportVars

HookValidationStepEnd ==
    /\ Hook(validation_step_end(HookInput), NoError)
    /\ lastOp' = "validation_step_end"

HookTestStepEnd ==
    /\ Hook(test_step_end(HookInput), NoError)
    /\ lastOp' = "test_step_end"

HookPredictStep ==
    /\ LET r == predict_step(HookInput, image_threshold) IN Hook(r.out, r.error)
    /\ lastOp' = "predict_step"

NextSteps ==
    \/ HookValidationStepEnd
    \/ HookTestStepEnd
    \/ HookPredictStep

SpecSteps == InitSteps /\ [][NextSteps]_vars

\* ------------------------------------------------------- SaveToCSVCallback
NoLogDir == "<None>"
Names == {"000.png", "001.png"}

\* A results object of n samples.
ResultsOf(n) ==
    [filenames : Vectors(Names, n), true_labels : Vectors(Classes, n),
     pred_labels : Vectors(BOOLEAN, n)]

AsInt(b) == IF b THEN 1 ELSE 0

\* Mutant of logical_xor: logical_or.
logical_or(true_label, pred_label) == (true_label # 0) \/ pred_label

\* np.logical_xor of an integer class and a boolean prediction.
logical_xor(true_label, pred_label) == (true_label # 0) # pred_label

DataFrame(res) ==
    [i \in 1..Len(res.filenames) |->
        [index |-> i - 1,
         name |-> res.filenames[i],
         true_label |-> res.true_labels[i],
         pred_label |-> AsInt(res.pred_labels[i]),
         wrong_prediction |-> AsInt(logical_xor(res.true_labels[i], res.pred_labels[i]))]]

CsvPath(dir) == <<dir, "results.csv">>

\* DataFrame.to_csv(path): the file at path holds the frame's rows, whatever
\* it held before.
to_csv(fs, path, frame) == SetKey(fs, path, frame)

\* Line 28 reads pl_module.results before anything else is looked at.
on_test_epoch_end(fs, dir, module) ==
    IF ~Has(module, "results")
    THEN [files |-> fs, error |-> "AttributeError"]
    ELSE IF dir # NoLogDir
    THEN [files |-> to_csv(fs, CsvPath(dir), DataFrame(module["results"])),
          error |-> NoError]
    ELSE [files |-> fs, error |-> "ValueError"]

\* The modules a trainer may hand to the callback.
Modules == {BareModule} \cup UNION {{WithResults(res) : res \in ResultsOf(n)} : n \in 0..MaxRows}

InitExport ==
    /\ InitModule([task |-> "classification", adaptive_threshold |-> FALSE,
                   default_image_threshold |-> 0, default_pixel_threshold |-> 0])
    /\ step_output = None
    /\ log_dir \in {NoLogDir, "logs"}
    /\ pl_module = BareModule
    /\ files = <<>>

OnTestEpochEnd ==
    /\ error = NoError
    /\ steps < MaxSteps
    /\ \E module \in Modules :
          LET r == on_test_epoch_end(files, log_dir, module)
          IN /\ pl_module' = module
             /\ files' = r.files
             /\ error' = r.error
    /\ steps' = steps + 1
    /\ returned' = None
    /\ lastOp' = "on_test_epoch_end"
    /\ UNCHANGED <<hparams, image_threshold, pixel_threshold, image_metrics,
                   pixel_metrics, loop, outputs, step_output, logged, log_dir>>

NextExport == OnTestEpochEnd

SpecExport == InitExport /\ [][NextExport]_vars

\* ================================================================== claims
StepEndHooks == {"validation_step_end", "test_step_end"}
Adaptive == hparams.adaptive_threshold

\* The epoch's (pred_scores, label) pairs and flattened (anomaly_maps, mask)
\* pairs, as multisets.
RECURSIVE ImagePairs(_)
ImagePairs(outs) ==
    IF Len(outs) = 0 THEN NoPairs
    ELSE AddPairs(ImagePairs(Tail(outs)), Head(outs)["pred_scores"], Head(outs)["label"])

RECURSIVE PixelPairs(_)
PixelPairs(outs) ==
    IF Len(outs) = 0 THEN NoPairs
    ELSE IF HasPixelKeys(Head(outs))
         THEN AddPairs(PixelPairs(Tail(outs)), Flatten(Head(outs)["anomaly_maps"]),
                       Flatten(Head(outs)["mask"]))
         ELSE PixelPairs(Tail(outs))

PlusPairs(a, b) == [p \in DOMAIN a |-> a[p] + b[p]]

EveryOutputHasPixelKeys == \A i \in 1..Len(outputs) : HasPixelKeys(outputs[i])
NoOutputHasPixelKeys == \A i \in 1..Len(outputs) : ~HasPixelKeys(outputs[i])

\* A step in which validation_epoch_end ran the adaptive computation to its end.
AdaptiveEpochStep ==
    /\ lastOp' = "validation_epoch_end"
    /\ Adaptive
    /\ error' = NoError

\* C1: after an adaptive validation_epoch_end, if every output has mask and
\* anomaly_maps the pixel threshold is what the pixel aggregator, fed with the
\* epoch's flattened (anomaly_maps, mask) pairs, computes; if no output has
\* both, the pixel threshold equals the image threshold of that call.
C1_PixelThreshold ==
    [][AdaptiveEpochStep =>
          /\ EveryOutputHasPixelKeys =>
                /\ pixel_threshold'.pairs = PlusPairs(pixel_threshold.pairs, PixelPairs(outputs))
                /\ pixel_threshold'.value = BestThreshold(pixel_threshold'.pairs)
          /\ NoOutputHasPixelKeys =>
                /\ pixel_threshold'.value = image_threshold'.value
                /\ pixel_threshold'.pairs = pixel_threshold.pairs]_vars

\* An adaptive epoch whose outputs all had both keys (as many pixel pairs as
\* image pairs) left a pixel threshold that differs from the image threshold.
C1_Witness ==
    /\ lastOp = "validation_epoch_end" /\ Adaptive /\ error = NoError
    /\ Size(pixel_threshold.pairs) = Size(image_threshold.pairs)
    /\ Size(pixel_threshold.pairs) = MaxSteps
    /\ pixel_threshold.value # image_threshold.value

\* C2: predict_step returns the post-processed dict with pred_labels[i] true
\* exactly when pred_scores[i] >= the image threshold, which is the configured
\* default before any adaptive computation and the computed value after it.
C2_PredictLabels ==
    (lastOp = "predict_step" /\ error = NoError) =>
        /\ Has(returned, "pred_scores") /\ Has(returned, "pred_labels")
        /\ Has(step_output, "pred_scores") => returned["pred_scores"] = step_output["pred_scores"]
        /\ \A i \in 1..Len(returned["pred_scores"]) :
              returned["pred_labels"][i] = (returned["pred_scores"][i] >= image_threshold.value)
        /\ image_threshold.value =
              IF Adaptive /\ Size(image_threshold.pairs) > 0
              THEN BestThreshold(image_threshold.pairs)
              ELSE hparams.default_image_threshold

\* A prediction made after an adaptive computation moved the threshold, on a
\* score that sits exactly on the threshold.
C2_Witness ==
    /\ lastOp = "predict_step" /\ error = NoError
    /\ Adaptive /\ Size(image_threshold.pairs) > 0
    /\ image_threshold.value # hparams.default_image_threshold
    /\ returned["pred_scores"][1] = image_threshold.value
    /\ returned["pred_labels"][1]

IsMaxOf(v, s) == (\E j \in 1..Len(s) : s[j] = v) /\ (\A j \in 1..Len(s) : s[j] <= v)

FirstHookDone == steps = 1 /\ error = NoError /\ lastOp # "__init__"

\* C3: a hook given a dict without pred_scores and with anomaly_maps sets
\* pred_scores[i] to the maximum of anomaly_maps[i] for every sample and
\* leaves every other key as it was (predict_step then adds pred_labels).
C3_PredScoresFromMaps ==
    (FirstHookDone /\ ~Has(step_output, "pred_scores") /\ Has(step_output, "anomaly_maps")) =>
        /\ DOMAIN returned = DOMAIN step_output \cup {"pred_scores"}
                                \cup (IF lastOp = "predict_step" THEN {"pred_labels"} ELSE {})
        /\ \A k \in DOMAIN step_output : returned[k] = step_output[k]
        /\ Len(returned["pred_scores"]) = Len(step_output["anomaly_maps"])
        /\ \A i \in 1..Len(step_output["anomaly_maps"]) :
              IsMaxOf(returned["pred_scores"][i], step_output["anomaly_maps"][i])

\* validation_step_end derived the scores of two samples whose maxima differ
\* and are not at the first pixel of the first map.
C3_Witness ==
    /\ FirstHookDone /\ lastOp = "validation_step_end"
    /\ ~Has(step_output, "pred_scores") /\ Has(step_output, "anomaly_maps")
    /\ Has(step_output, "label") /\ Has(step_output, "mask")
    /\ Len(step_output["anomaly_maps"]) = 2
    /\ step_output["anomaly_maps"][1][1] = 0
    /\ returned["pred_scores"] = <<MaxScore, 0>>

\* C4: post_process is idempotent: a second step-end hook returns what the
\* first returned, and a dict that has pred_scores or has no anomaly_maps is
\* returned as it was given.
C4_Idempotent ==
    [][(lastOp' \in StepEndHooks /\ steps' = steps + 1) =>
          /\ (steps = 1 /\ lastOp \in StepEndHooks) => returned' = returned
          /\ (steps = 0 /\ (Has(step_output, "pred_scores") \/ ~Has(step_output, "anomaly_maps")))
                => returned' = step_output]_vars

\* Two step-end hooks ran on a dict that came without pred_scores: the first
\* added them, the second changed nothing.
C4_Witness ==
    /\ steps = 2 /\ lastOp \in StepEndHooks /\ error = NoError
    /\ ~Has(step_output, "pred_scores") /\ Has(step_output, "anomaly_maps")
    /\ Has(returned, "pred_scores") /\ ~Has(returned, "pred_labels")

\* C5: in every exported row wrong_prediction is 1 if true_label and
\* pred_label disagree and 0 otherwise.
C5_WrongPrediction ==
    \A path \in DOMAIN files : \A i \in 1..Len(files[path]) :
        LET row == files[path][i]
        IN row.wrong_prediction = (IF row.true_label # row.pred_label THEN 1 ELSE 0)

\* An exported file with a wrong row (true 1, predicted 0) and a right one.
C5_Witness ==
    /\ CsvPath("logs") \in DOMAIN files
    /\ Len(files[CsvPath("logs")]) = 2
    /\ LET r1 == files[CsvPath("logs")][1]
           r2 == files[CsvPath("logs")][2]
       IN /\ r1.true_label = 1 /\ r1.pred_label = 0 /\ r1.wrong_prediction = 1
          /\ r2.true_label = 1 /\ r2.pred_label = 1 /\ r2.wrong_prediction = 0

\* What the export does: without a results attribute it raises AttributeError
\* whatever the log directory is; with one it raises ValueError if there is no
\* log directory and otherwise leaves results.csv there, holding one row per
\* sample of the results just exported and nothing of an earlier export.  A
\* failed export writes nothing.
ExportOutcomes ==
    lastOp = "on_test_epoch_end" =>
        IF ~Has(pl_module, "results")
        THEN error = "AttributeError" /\ (log_dir = NoLogDir => files = <<>>)
        ELSE IF log_dir = NoLogDir
        THEN error = "ValueError" /\ files = <<>>
        ELSE /\ error = NoError
             /\ DOMAIN files = {CsvPath(log_dir)}
             /\ files[CsvPath(log_dir)] = DataFrame(pl_module["results"])

\* C6 as claimed: an export without log directory raises the configuration
\* error and writes no file; with a log directory it succeeds and leaves
\* results.csv there, holding one row per exported sample and nothing of an
\* earlier export.
C6_Export ==
    lastOp = "on_test_epoch_end" =>
        IF log_dir = NoLogDir
        THEN error = "ValueError" /\ files = <<>>
        ELSE /\ error = NoError
             /\ DOMAIN files = {CsvPath(log_dir)}
             /\ Len(files[CsvPath(log_dir)]) = Len(pl_module["results"].filenames)
             /\ \A i \in 1..Len(pl_module["results"].filenames) :
                   /\ files[CsvPath(log_dir)][i].index = i - 1
                   /\ files[CsvPath(log_dir)][i].name = pl_module["results"].filenames[i]
                   /\ files[CsvPath(log_dir)][i].true_label = pl_module["results"].true_labels[i]
                   /\ files[CsvPath(log_dir)][i].pred_label
                         = AsInt(pl_module["results"].pred_labels[i])

\* C7: only the adaptive computation changes the thresholds: the step hooks,
\* predict_step, test_epoch_end and a validation_epoch_end without adaptive
\* mode leave both threshold values and the threshold aggregators' pairs as
\* they were.
C7_ThresholdsFrozen ==
    [][(\/ lastOp' \in StepEndHooks \cup {"predict_step", "test_epoch_end"}
        \/ lastOp' = "validation_epoch_end" /\ ~Adaptive)
          => UNCHANGED <<image_threshold, pixel_threshold>>]_vars

\* A test epoch ended after an adaptive validation epoch had moved the image
\* threshold away from its default.
C7_Witness ==
    /\ lastOp = "test_epoch_end" /\ error = NoError /\ Adaptive
    /\ Size(image_threshold.pairs) > 0
    /\ image_threshold.value # hparams.default_image_threshold
    /\ Size(image_metrics.AUROC.pairs) > 0

\* C8 as claimed: the pixel threshold is computed from its aggregator only if
\* every output of the epoch has mask and anomaly_maps, and equals the image
\* threshold as soon as one output lacks either.
C8_EveryOutputDecides ==
    [][AdaptiveEpochStep =>
          IF EveryOutputHasPixelKeys
          THEN pixel_threshold'.value = BestThreshold(pixel_threshold'.pairs)
          ELSE pixel_threshold'.value = image_threshold'.value]_vars

\* C8 as the code has it: the first output of the epoch decides.
C8_FirstOutputDecides ==
    [][AdaptiveEpochStep =>
          /\ pixel_threshold'.pairs = PlusPairs(pixel_threshold.pairs, PixelPairs(outputs))
          /\ IF HasPixelKeys(outputs[1])
             THEN pixel_threshold'.value = BestThreshold(pixel_threshold'.pairs)
             ELSE pixel_threshold'.value = image_threshold'.value]_vars

\* A mixed epoch (fewer pixel pairs than image pairs, but some) after which
\* the pixel threshold differs from the image threshold.
C8_Witness ==
    /\ lastOp = "validation_epoch_end" /\ Adaptive /\ error = NoError
    /\ Size(image_threshold.pairs) = MaxSteps
    /\ Size(pixel_threshold.pairs) > 0
    /\ Size(pixel_threshold.pairs) < Size(image_threshold.pairs)
    /\ pixel_threshold.value # image_threshold.value

RECURSIVE EpochPreds(_)
EpochPreds(outs) ==
    IF Len(outs) = 0 THEN <<>> ELSE Head(outs)["pred_scores"] \o EpochPreds(Tail(outs))

RECURSIVE EpochLabels(_)
EpochLabels(outs) ==
    IF Len(outs) = 0 THEN <<>> ELSE Head(outs)["label"] \o EpochLabels(Tail(outs))

CutoffsSynced ==
    /\ image_metrics.F1.threshold = image_threshold.value
    /\ pixel_metrics.F1.threshold = pixel_threshold.value

\* C9: an adaptive validation_epoch_end sets the F1 cutoffs to the new
\* threshold values before it feeds the epoch's outputs to the metrics (the
\* epoch's predictions are counted against the new cutoff), and the cutoffs
\* equal the threshold values from then on.
C9_CutoffsSynced ==
    [][/\ AdaptiveEpochStep =>
             /\ CutoffsSynced'
             /\ image_metrics'.F1.tp = image_metrics.F1.tp
                   + Hits(EpochPreds(outputs), EpochLabels(outputs), image_threshold'.value, 1, 1)
             /\ image_metrics'.F1.fn = image_metrics.F1.fn
                   + Hits(EpochPreds(outputs), EpochLabels(outputs), image_threshold'.value, 0, 1)
             /\ image_metrics'.F1.fp = image_metrics.F1.fp
                   + Hits(EpochPreds(outputs), EpochLabels(outputs), image_threshold'.value, 1, 0)
             /\ image_metrics'.F1.tn = image_metrics.F1.tn
                   + Hits(EpochPreds(outputs), EpochLabels(outputs), image_threshold'.value, 0, 0)
       /\ (Adaptive /\ CutoffsSynced /\ Size(image_threshold.pairs) > 0) => CutoffsSynced']_vars

\* An adaptive epoch moved the image cutoff below the F1 default and counted
\* a positive sample that the default cutoff would have missed.
C9_Witness ==
    /\ lastOp = "validation_epoch_end" /\ Adaptive /\ error = NoError
    /\ image_metrics.F1.threshold < F1DefaultThreshold
    /\ image_metrics.F1.threshold = image_threshold.value
    /\ image_metrics.F1.tp = MaxSteps
    /\ image_threshold.pairs[<<0, 1>>] > 0

\* C10 as claimed: the image and pixel thresholds an adaptive epoch computes
\* are those of the pairs of that epoch's outputs alone.
C10_ThisEpochOnly ==
    [][AdaptiveEpochStep =>
          /\ image_threshold'.value = BestThreshold(ImagePairs(outputs))
          /\ HasPixelKeys(outputs[1]) =>
                pixel_threshold'.value = BestThreshold(PixelPairs(outputs))]_vars
====
